---- MODULE Spec2Model ----
(***************************************************************************)
(* The tool-resolution pipeline of the Elasticsearch MCP server and the    *)
(* dispatch of its two gateways (stdio and streaming), as a state machine. *)
(*                                                                         *)
(* Strings are sequences of one-character strings, so that str.lower(),    *)
(* re.match(..., re.IGNORECASE) and comma splitting are computed and not   *)
(* assumed.  A Python dict is a sequence of entries with distinct keys, in *)
(* insertion order.  A Python call that may raise returns a record         *)
(* [exc, value].  None is the empty sequence.                              *)
(***************************************************************************)
EXTENDS Integers, Sequences, FiniteSets, TLC

VARIABLES
    tool_registry,        \* tools.TOOL_REGISTRY, the shared module-level registry
    mode,                 \* 'single' | 'multi'
    config_file_path,     \* serve(config_file_path=...): "" when none is given
    config_doc,           \* what the file at config_file_path holds, as loaded
    cli_tool_overrides,   \* serve(cli_tool_overrides=...)
    env,                  \* the ELASTICSEARCH_* filter variables of os.environ
    pc,                   \* position of serve(): "start", "customized", "serving"
    customized_registry,  \* serve()'s customized_registry
    enabled_tools,        \* serve()'s enabled_tools (the EnabledToolSet)
    backend_info,         \* what the backend answered get_tools() about its version
    version,              \* get_tools()'s local version (None when unresolved)
    version_resolved,     \* whether get_tools() called get_elasticsearch_version
    filter_output,        \* the registry as process_tool_filter left it
    log,                  \* the warnings and errors logged during startup
    call,                 \* the last call_tool request and its outcome
    ncalls,               \* number of call_tool requests served so far
    previous,             \* history: what the first run of serve() started from
                          \* and returned, when serve() is run again
    inflight,             \* the call_tool requests of overlapping tasks, in the
                          \* order they arrived, each with its outcome so far
    listed                \* what the last list_tools request returned

vars == <<tool_registry, mode, config_file_path, config_doc, cli_tool_overrides,
          env, pc, customized_registry, enabled_tools, backend_info, version,
          version_resolved, filter_output, log, call, ncalls, previous, inflight,
          listed>>

None == <<>>

\* Number of call_tool requests a behaviour serves.
MaxCalls == 2

----------------------------------------------------------------------------
(* Strings *)

UPPERCASE == <<"A","B","C","D","E","F","G","H","I","J","K","L","M",
               "N","O","P","Q","R","S","T","U","V","W","X","Y","Z">>
LOWERCASE == <<"a","b","c","d","e","f","g","h","i","j","k","l","m",
               "n","o","p","q","r","s","t","u","v","w","x","y","z">>

\* The lower-case letter of each upper-case letter.
LowerTable ==
    [c \in {UPPERCASE[i] : i \in 1..Len(UPPERCASE)} |->
        LOWERCASE[CHOOSE i \in 1..Len(UPPERCASE) : UPPERCASE[i] = c]]

LowerChar(c) == IF c \in DOMAIN LowerTable THEN LowerTable[c] ELSE c

\* str.lower()
Lower(s) == [i \in 1..Len(s) |-> LowerChar(s[i])]

\* s.startswith(p)
StartsWith(s, p) == Len(p) <= Len(s) /\ SubSeq(s, 1, Len(p)) = p

Range(s) == {s[i] : i \in 1..Len(s)}

RECURSIVE Concat(_)
\* List concatenation of a sequence of sequences (list.extend in a loop).
Concat(ss) == IF ss = <<>> THEN <<>> ELSE Head(ss) \o Concat(Tail(ss))

\* Names used by the registries and the filter settings.
ListIndexTool    == <<"L","i","s","t","I","n","d","e","x","T","o","o","l">>
IndexMappingTool == <<"I","n","d","e","x","M","a","p","p","i","n","g","T","o","o","l">>
SearchIndexTool  == <<"S","e","a","r","c","h","I","n","d","e","x","T","o","o","l">>
GetShardsTool    == <<"G","e","t","S","h","a","r","d","s","T","o","o","l">>
ToolA            == <<"A">>
ToolB            == <<"B">>
ToolC            == <<"C">>
getshardstool    == <<"g","e","t","s","h","a","r","d","s","t","o","o","l">>
Zed              == <<"Z","e","d">>
Finder           == <<"F","i","n","d","e","r">>
risky            == <<"r","i","s","k","y">>
nope             == <<"n","o","p","e">>
true             == <<"t","r","u","e">>
True             == <<"T","r","u","e">>
false            == <<"f","a","l","s","e">>

----------------------------------------------------------------------------
(* Versions: semver.Version as <<major, minor, patch>> *)

V690  == <<6, 9, 0>>
V700  == <<7, 0, 0>>
V7102 == <<7, 10, 2>>
V800  == <<8, 0, 0>>

\* a < b in (major, minor, patch) order
VersionLt(a, b) ==
    \/ a[1] < b[1]
    \/ a[1] = b[1] /\ a[2] < b[2]
    \/ a[1] = b[1] /\ a[2] = b[2] /\ a[3] < b[3]

VersionLe(a, b) == a = b \/ VersionLt(a, b)

\* semver's Version.parse of the dotted number the backend reports: it raises
\* unless the number has exactly the three parts major.minor.patch.
VersionParse(number) ==
    IF Len(number) = 3 THEN [exc |-> FALSE, value |-> number]
    ELSE [exc |-> TRUE, value |-> None]

----------------------------------------------------------------------------
(* The registry *)

\* baseToolArgs.model_fields: the arguments every tool shares.
BaseFields == {"elasticsearch_cluster_name"}

Tool(key, methods, minv, maxv, props, fn) ==
    [key |-> key, display_name |-> key, http_methods |-> methods,
     min_version |-> minv, max_version |-> maxv,
     properties |-> props \cup BaseFields, function |-> fn]

\* tools.TOOL_REGISTRY.  http_methods is the set of verbs its string names:
\* 'GET' in 'GET, POST' is the substring test of apply_write_filter.
TOOL_REGISTRY ==
    << Tool(ListIndexTool, {"GET"}, V700, None, {"index", "include_detail"},
            "list_indices_tool"),
       Tool(IndexMappingTool, {"GET"}, None, None, {"index"},
            "get_index_mapping_tool"),
       Tool(SearchIndexTool, {"GET", "POST"}, None, None, {"index", "query"},
            "search_index_tool"),
       Tool(GetShardsTool, {"GET"}, None, None, {"index"}, "get_shards_tool") >>

\* The registry {A: GET, B: PUT}.
RegistryAB ==
    << Tool(ToolA, {"GET"}, None, None, {"index"}, "list_indices_tool"),
       Tool(ToolB, {"PUT"}, None, None, {"index"}, "search_index_tool") >>

\* A registry with read, write, mixed and verb-less tools and both bounds.
RegistryMixed ==
    << Tool(ToolA, {"GET"}, V700, V7102, {"index"}, "list_indices_tool"),
       Tool(ToolB, {"PUT"}, None, None, {"index"}, "get_index_mapping_tool"),
       Tool(SearchIndexTool, {"GET", "POST"}, None, V7102, {"index", "query"},
            "search_index_tool"),
       Tool(GetShardsTool, {"GET"}, None, None, {"index"}, "get_shards_tool"),
       Tool(ToolC, {}, None, None, {"index"}, "get_shards_tool") >>

Registries == {TOOL_REGISTRY, RegistryAB, RegistryMixed}

Keys(registry) == {registry[i].key : i \in 1..Len(registry)}

DisplayNames(registry) == {registry[i].display_name : i \in 1..Len(registry)}

----------------------------------------------------------------------------
(* tools/utils.py *)

\* parse_comma_separated: split on commas, strip, drop the empty items.  A
\* comma-separated text is the sequence of its items; an item between two
\* adjacent commas (or after a trailing comma) is the empty string.
ParseCommaSeparated(text) == SelectSeq(text, LAMBDA item : item # <<>>)

\* load_yaml_config: no path gives None; a file that cannot be read or parsed,
\* or that holds nothing, gives None (doc = None); otherwise the document.
LoadYamlConfig(filter_path, doc) == IF filter_path = "" THEN None ELSE doc

\* validate_tools: the names of tool_list that are display names of the
\* registry, compared case-insensitively through the lookup (lower-cased
\* display name -> key); each resolves to its tool's lower-cased key.  The
\* others are logged and ignored.
ValidateTools(tool_list, display_name) ==
    {Lower(display_name[Lower(tool_list[i])]) :
        i \in {j \in 1..Len(tool_list) : Lower(tool_list[j]) \in DOMAIN display_name}}

\* is_tool_compatible: an unresolved version is compatible with every tool;
\* otherwise min_version <= version <= max_version, an absent bound being no
\* bound.
IsToolCompatible(current_version, tool_info) ==
    \/ current_version = None
    \/ /\ tool_info.min_version = None
          \/ VersionLe(tool_info.min_version, current_version)
       /\ tool_info.max_version = None
          \/ VersionLe(current_version, tool_info.max_version)

----------------------------------------------------------------------------
(* tools/tool_filter.py *)

\* re.compile: of the patterns modelled (literal characters, an optional
\* trailing ".*", and "["), one with an unclosed "[" raises re.error.
ReCompiles(regex) == "[" \notin Range(regex)

\* The literal prefix of a pattern: the pattern without a trailing ".*".
RePrefix(regex) ==
    IF Len(regex) >= 2 /\ SubSeq(regex, Len(regex) - 1, Len(regex)) = <<".", "*">>
    THEN SubSeq(regex, 1, Len(regex) - 2)
    ELSE regex

\* re.match(regex, tool_name, re.IGNORECASE): anchored at the start only.
ReMatch(regex, tool_name) == StartsWith(Lower(tool_name), Lower(RePrefix(regex)))

\* process_regex_patterns
ProcessRegexPatterns(regex_list, tool_names) ==
    IF tool_names # <<>> /\ \E i \in 1..Len(regex_list) : ~ReCompiles(regex_list[i])
    THEN [exc |-> TRUE, value |-> <<>>]
    ELSE [exc |-> FALSE,
          value |-> Concat([i \in 1..Len(regex_list) |->
                       SelectSeq(tool_names, LAMBDA n : ReMatch(regex_list[i], n))])]


\* apply_write_filter, were it to keep only the tools that declare no write
\* verb.
ApplyWriteFilterPureRead(registry) ==
    SelectSeq(registry, LAMBDA t : "GET" \in t.http_methods
                                /\ t.http_methods \cap {"POST", "PUT", "DELETE"} = {})

\* apply_write_filter
ApplyWriteFilter(registry) == SelectSeq(registry, LAMBDA t : "GET" \in t.http_methods)


\* process_categories, were it to stop at the first unknown category.
ProcessCategoriesStopsAtUnknown(category_list, category_to_tools) ==
    Concat([i \in 1..Len(category_list) |->
              IF \A j \in 1..i : category_list[j] \in DOMAIN category_to_tools
              THEN category_to_tools[category_list[i]]
              ELSE <<>>])

\* process_categories
ProcessCategories(category_list, category_to_tools) ==
    Concat([i \in 1..Len(category_list) |->
              IF category_list[i] \in DOMAIN category_to_tools
              THEN category_to_tools[category_list[i]]
              ELSE <<>>])

\* dict.update
Update(d, e) ==
    [k \in DOMAIN d \cup DOMAIN e |-> IF k \in DOMAIN e THEN e[k] ELSE d[k]]

NoCategories == [k \in {} |-> <<>>]

\* bool(allow_write) of an Optional[bool]: {} is None.
Truthy(allow_write) == TRUE \in allow_write

\* The display name lookup of process_tool_filter (lines 70-72): a dict
\* comprehension, so of two tools with one lower-cased display name the later
\* one is kept.
DisplayLookup(registry) ==
    [n \in {Lower(registry[i].display_name) : i \in 1..Len(registry)} |->
        LET last == CHOOSE i \in 1..Len(registry) :
                        /\ Lower(registry[i].display_name) = n
                        /\ \A j \in 1..Len(registry) :
                              Lower(registry[j].display_name) = n => j <= i
        IN  registry[last].key]

\* The removal loop of process_tool_filter (lines 130-146).
RemoveDisabled(registry, display_name, disabled_tools_list, disabled_tools_from_categories, disabled_tools_from_regex) ==
    IF disabled_tools_list # <<>> \/ disabled_tools_from_categories # <<>>
       \/ disabled_tools_from_regex # <<>>
    THEN LET all_disabled_tools ==
                 ValidateTools(disabled_tools_list, display_name)
                 \cup ValidateTools(disabled_tools_from_categories, display_name)
                 \cup ValidateTools(disabled_tools_from_regex, display_name)
         IN  SelectSeq(registry, LAMBDA t : Lower(t.key) \notin all_disabled_tools)
    ELSE registry


\* The category map, were JSONDecodeError not caught where json.loads is
\* called.
CategoryMapJsonErrorAborts(config, tool_categories) ==
    LET from_config == IF config # None THEN config.tool_category ELSE NoCategories
    IN  CASE tool_categories.kind = "empty" ->
               [exc |-> FALSE, value |-> from_config]
          [] tool_categories.kind = "object" ->
               [exc |-> FALSE, value |-> Update(from_config, tool_categories.value)]
          [] OTHER ->
               [exc |-> TRUE, value |-> from_config]

\* The category map after the config file and the JSON text: json.loads raises
\* JSONDecodeError on invalid JSON (caught and logged, map unchanged);
\* dict.update raises on valid JSON that is not an object (not caught there).
CategoryMap(config, tool_categories) ==
    LET from_config == IF config # None THEN config.tool_category ELSE NoCategories
    IN  CASE tool_categories.kind = "empty" ->
               [exc |-> FALSE, value |-> from_config]
          [] tool_categories.kind = "invalid" ->
               [exc |-> FALSE, value |-> from_config]
          [] tool_categories.kind = "object" ->
               [exc |-> FALSE, value |-> Update(from_config, tool_categories.value)]
          [] OTHER ->
               [exc |-> TRUE, value |-> from_config]

\* allow_write after the settings of the config file (lines 93-95).
EffectiveAllowWrite(config, allow_write) ==
    IF config # None /\ DOMAIN config.tool_filters.settings # {}
    THEN IF "allow_write" \in DOMAIN config.tool_filters.settings
         THEN {config.tool_filters.settings["allow_write"]}
         ELSE {TRUE}
    ELSE allow_write

\* process_tool_filter.  The registry is filtered in place, so an exception,
\* caught by the outer except and logged, leaves it as filtered so far.
ProcessToolFilter(disabled_tools, tool_categories, disabled_categories, disabled_tools_regex, allow_write, filter_path, doc, registry) ==
    LET display_name == DisplayLookup(registry)
        config == LoadYamlConfig(filter_path, doc)
        cats == CategoryMap(config, tool_categories)
        disabled_tools_list ==
            (IF config # None THEN config.tool_filters.disabled_tools ELSE <<>>)
            \o ParseCommaSeparated(disabled_tools)
        disabled_category_list ==
            (IF config # None THEN config.tool_filters.disabled_categories ELSE <<>>)
            \o ParseCommaSeparated(disabled_categories)
        disabled_tools_regex_list ==
            (IF config # None THEN config.tool_filters.disabled_tools_regex ELSE <<>>)
            \o ParseCommaSeparated(disabled_tools_regex)
        written == IF ~Truthy(EffectiveAllowWrite(config, allow_write))
                   THEN ApplyWriteFilter(registry) ELSE registry
        from_categories == ProcessCategories(disabled_category_list, cats.value)
        current_tool_names == [i \in 1..Len(written) |-> written[i].display_name]
        from_regex == ProcessRegexPatterns(disabled_tools_regex_list, current_tool_names)
    IN  IF cats.exc
        THEN [registry |-> registry, error |-> TRUE]
        ELSE IF from_regex.exc
        THEN [registry |-> written, error |-> TRUE]
        ELSE [registry |-> RemoveDisabled(written, display_name, disabled_tools_list,
                                          from_categories, from_regex.value),
              error |-> FALSE]

----------------------------------------------------------------------------
(* es_client/helper.py *)

\* What the backend's info endpoint does when asked: the call fails, or it
\* reports a version number.
InfoResponses ==
    { [ok |-> FALSE, number |-> None],
      [ok |-> TRUE, number |-> V690],
      [ok |-> TRUE, number |-> V7102],
      [ok |-> TRUE, number |-> V800],
      [ok |-> TRUE, number |-> <<7, 10>>] }

\* The backend was not asked.
NoInfo == [ok |-> FALSE, number |-> <<"not asked">>]

\* What it does during a call_tool request.
CallInfoResponses ==
    { [ok |-> FALSE, number |-> None],
      [ok |-> TRUE, number |-> V690],
      [ok |-> TRUE, number |-> V7102] }


\* get_elasticsearch_version, were it to answer a failure with version 0.0.0.
GetElasticsearchVersionZero(info) ==
    IF info.ok /\ ~VersionParse(info.number).exc
    THEN VersionParse(info.number).value
    ELSE <<0, 0, 0>>

\* get_elasticsearch_version: any exception of the client, of the call or of
\* Version.parse is caught and logged, and None is returned.
GetElasticsearchVersion(info) ==
    IF info.ok /\ ~VersionParse(info.number).exc
    THEN VersionParse(info.number).value
    ELSE None

----------------------------------------------------------------------------
(* tools/config.py *)

NoOverrides == [k \in {} |-> <<>>]

\* apply_custom_tool_config: a deep copy of the registry in which each tool
\* named by an override has its display name replaced; the overrides of the
\* config file apply first and those of the command line win.
ApplyCustomToolConfig(registry, config_path, doc, cli_overrides) ==
    LET from_file == IF LoadYamlConfig(config_path, doc) # None
                     THEN doc.tools ELSE NoOverrides
        overrides == Update(from_file, cli_overrides)
    IN  [i \in 1..Len(registry) |->
            IF registry[i].key \in DOMAIN overrides
            THEN [registry[i] EXCEPT !.display_name = overrides[registry[i].key]]
            ELSE registry[i]]

----------------------------------------------------------------------------
(* tools/tool_filter.py: get_tools *)

\* os.getenv(name, ''): an unset variable reads as the empty text.
EmptyJson == [kind |-> "empty", value |-> NoCategories]

\* env_config of get_tools (lines 183-189).
EnvConfig(e) ==
    [disabled_tools |-> e.disabled_tools,
     tool_categories |-> e.tool_categories,
     disabled_categories |-> e.disabled_categories,
     disabled_tools_regex |-> e.disabled_tools_regex,
     allow_write |-> Lower(IF e.allow_write = None THEN true ELSE e.allow_write) = true]

\* any(env_config.values())
AnyEnvConfig(c) ==
    \/ c.disabled_tools # <<>>
    \/ c.tool_categories.kind # "empty"
    \/ c.disabled_categories # <<>>
    \/ c.disabled_tools_regex # <<>>
    \/ c.allow_write

\* dict[key] = value: a present key keeps its place.
DictSet(d, key, value) ==
    IF \E i \in 1..Len(d) : d[i].key = key
    THEN [i \in 1..Len(d) |-> IF d[i].key = key THEN value ELSE d[i]]
    ELSE Append(d, value)

\* The schema of a tool without the shared arguments (lines 213-218).
StripBaseFields(tool_info) ==
    [tool_info EXCEPT !.properties = tool_info.properties \ BaseFields]


RECURSIVE EnableLoopNoVersionCheck(_, _, _)
\* The loop of get_tools, were it to enter every tool.
EnableLoopNoVersionCheck(registry, current_version, i) ==
    IF i = 0 THEN <<>>
    ELSE DictSet(EnableLoopNoVersionCheck(registry, current_version, i - 1),
                 registry[i].display_name,
                 [StripBaseFields(registry[i]) EXCEPT !.key = registry[i].display_name])

RECURSIVE EnableLoop(_, _, _)
\* The loop of get_tools over the filtered registry (lines 202-220), from its
\* i-th entry on: a compatible tool is entered under its display name.
EnableLoop(registry, current_version, i) ==
    IF i = 0 THEN <<>>
    ELSE LET enabled == EnableLoop(registry, current_version, i - 1)
             info == registry[i]
         IN  IF ~IsToolCompatible(current_version, info)
             THEN enabled
             ELSE DictSet(enabled, info.display_name,
                          [StripBaseFields(info) EXCEPT !.key = info.display_name])

\* schema['properties'] is the dict of the registry's own schema (the copies
\* are shallow), so popping the shared arguments strips them there too.
StripInPlace(registry, current_version) ==
    [i \in 1..Len(registry) |->
        IF IsToolCompatible(current_version, registry[i])
        THEN StripBaseFields(registry[i]) ELSE registry[i]]

\* The call of process_tool_filter in get_tools (lines 196-200): the
\* environment settings are passed only when no config file path is given.
FilterCall(registry, path, doc, e) ==
    IF path # ""
    THEN ProcessToolFilter(<<>>, EmptyJson, <<>>, <<>>, {}, path, doc, registry)
    ELSE LET c == EnvConfig(e)
         IN  ProcessToolFilter(c.disabled_tools, c.tool_categories,
                               c.disabled_categories, c.disabled_tools_regex,
                               {c.allow_write}, "", doc, registry)

\* The warning of get_tools (lines 192-193).
BothSourcesWarning(path, e) == path # "" /\ AnyEnvConfig(EnvConfig(e))

\* get_tools in single-backend mode (lines 176-222): the mapping it returns,
\* the registry it was given as it leaves it, and what it resolved and logged
\* on the way.
GetToolsSingle(registry, path, doc, e, info) ==
    LET current_version == GetElasticsearchVersion(info)
        filtered == FilterCall(registry, path, doc, e)
    IN  [enabled |-> EnableLoop(filtered.registry, current_version,
                                Len(filtered.registry)),
         registry |-> StripInPlace(filtered.registry, current_version),
         version |-> current_version,
         version_resolved |-> TRUE,
         filter_output |-> filtered.registry,
         log |-> (IF current_version = None THEN {"version_error"} ELSE {})
                 \cup (IF BothSourcesWarning(path, e)
                       THEN {"both_sources_warning"} ELSE {})
                 \cup (IF filtered.error THEN {"filter_error"} ELSE {})]

\* get_tools, were it to filter in multi-backend mode too.
GetToolsIgnoresMode(registry, m, path, doc, e, info) ==
    GetToolsSingle(registry, path, doc, e, info)

\* get_tools: in multi-backend mode the registry itself is returned.
GetTools(registry, m, path, doc, e, info) ==
    IF m = "multi"
    THEN [enabled |-> registry, registry |-> registry, version |-> None,
          version_resolved |-> FALSE, filter_output |-> registry, log |-> {}]
    ELSE GetToolsSingle(registry, path, doc, e, info)

----------------------------------------------------------------------------
(* mcp_server_elasticsearch: serve() and create_mcp_server() *)


\* The call of get_tools, were it given TOOL_REGISTRY itself.
ServeGetToolsOnShared(shared, customized, m, path, doc, e, info) ==
    LET r == GetTools(shared, m, path, doc, e, info)
    IN  [result |-> r, customized |-> customized, shared |-> r.registry]

\* The call of get_tools in serve() (stdio_server.py 31-33) and in
\* create_mcp_server() (streaming_server.py 38-40): it is given
\* customized_registry, so what get_tools removes and strips in place it removes
\* and strips there; TOOL_REGISTRY is another object, of which
\* customized_registry is a deep copy, and keeps its value.
ServeGetTools(shared, customized, m, path, doc, e, info) ==
    LET r == GetTools(customized, m, path, doc, e, info)
    IN  [result |-> r, customized |-> r.registry, shared |-> shared]

----------------------------------------------------------------------------
(* mcp_server_elasticsearch: call_tool and the handlers it dispatches to *)

\* The registry key each handler of tools.py passes to
\* check_tool_compatibility.
HandlerKey(function) ==
    CASE function = "list_indices_tool" -> ListIndexTool
      [] function = "get_index_mapping_tool" -> IndexMappingTool
      [] function = "search_index_tool" -> SearchIndexTool
      [] OTHER -> GetShardsTool

\* check_tool_compatibility: raises when TOOL_REGISTRY has no such key or the
\* version resolved for this call is outside the tool's bounds.
CheckToolCompatibilityRaises(shared_registry, tool_key, info) ==
    \/ tool_key \notin Keys(shared_registry)
    \/ \E i \in 1..Len(shared_registry) :
          /\ shared_registry[i].key = tool_key
          /\ ~IsToolCompatible(GetElasticsearchVersion(info), shared_registry[i])

\* What the backend does when a handler calls it: it returns a result, it
\* returns a document that holds an 'error' entry, or the call raises.
BackendOutcomes == {"result", "error_document", "raises"}

\* What failed in a handler run: the version check raised, the backend call
\* raised, or nothing did.
HandlerFailure(shared_registry, function, info, backend) ==
    IF CheckToolCompatibilityRaises(shared_registry, HandlerKey(function), info)
    THEN "version_check"
    ELSE IF backend = "raises" THEN "backend_call" ELSE "none"


\* A handler, were it without its except clause.
HandlerUncaught(shared_registry, function, info, backend) ==
    LET failure == HandlerFailure(shared_registry, function, info, backend)
    IN  IF failure # "none"
        THEN [raised |-> "Exception", result |-> <<>>, version_checks |-> 1,
              backend_calls |-> IF failure = "version_check" THEN 0 ELSE 1]
        ELSE [raised |-> "", version_checks |-> 1, backend_calls |-> 1,
              result |-> <<[type |-> "text", error |-> FALSE, prefix |-> "",
                            of |-> function]>>]

\* A handler of tools.py (lines 46-115): it checks the version once, then
\* calls the backend once; whatever either raises is caught by its except
\* clause and returned as one text block that begins with the handler's own
\* prefix.  get_shards_tool answers an error document with a block of its own.
\* The text of a block is its prefix followed by the message or the result.
Handler(shared_registry, function, info, backend) ==
    LET failure == HandlerFailure(shared_registry, function, info, backend)
        caught == CASE function = "list_indices_tool" -> "Error listing indices: "
                    [] function = "get_index_mapping_tool" -> "Error getting mapping: "
                    [] function = "search_index_tool" -> "Error searching index: "
                    [] OTHER -> "Error getting shards information: "
        block == IF failure # "none"
                 THEN [type |-> "text", error |-> TRUE, prefix |-> caught,
                       of |-> function]
                 ELSE IF function = "get_shards_tool" /\ backend = "error_document"
                 THEN [type |-> "text", error |-> TRUE,
                       prefix |-> "Error getting shards: ", of |-> function]
                 ELSE [type |-> "text", error |-> FALSE, prefix |-> "",
                       of |-> function]
    IN  [raised |-> "", result |-> <<block>>, version_checks |-> 1,
         backend_calls |-> IF failure = "version_check" THEN 0 ELSE 1]

\* list_tools of either gateway (stdio_server.py 36-47, streaming_server.py
\* 43-54): the names it advertises, one for each entry of enabled_tools.
ListTools(enabled) == [i \in 1..Len(enabled) |-> enabled[i].display_name]


\* The scan of call_tool, were it to compare the key and not the display name.
FindToolKeyByKey(enabled, name) ==
    IF \E i \in 1..Len(enabled) : enabled[i].key = name THEN name ELSE None

\* The scan of call_tool for the tool advertised under name (lines 52-56 of
\* stdio_server.py, 59-63 of streaming_server.py): None when there is none.
FindToolKey(enabled, name) ==
    IF \E i \in 1..Len(enabled) : enabled[i].display_name = name
    THEN LET first == CHOOSE i \in 1..Len(enabled) :
                          /\ enabled[i].display_name = name
                          /\ \A j \in 1..(i - 1) : enabled[j].display_name # name
         IN  enabled[first].key
    ELSE None

\* enabled_tools.get(found_tool_key)
DictGet(d, key) == d[CHOOSE i \in 1..Len(d) : d[i].key = key]

\* call_tool, the same in both gateways, up to its await: the exception that
\* leaves it (raised), or the handler it awaits with the parsed arguments.
CallToolOutcome(enabled, name, arguments_valid) ==
    LET found_tool_key == FindToolKey(enabled, name)
    IN  IF found_tool_key = None
        THEN [name |-> name, arguments_valid |-> arguments_valid, state |-> "done",
              raised |-> "ValueError", handler |-> "", result |-> <<>>,
              failure |-> "none", version_checks |-> 0, backend_calls |-> 0]
        ELSE IF ~arguments_valid
        THEN [name |-> name, arguments_valid |-> arguments_valid, state |-> "done",
              raised |-> "ValidationError", handler |-> "", result |-> <<>>,
              failure |-> "none", version_checks |-> 0, backend_calls |-> 0]
        ELSE [name |-> name, arguments_valid |-> arguments_valid,
              state |-> "awaiting", raised |-> "",
              handler |-> DictGet(enabled, found_tool_key).function,
              result |-> <<>>,
              failure |-> "none", version_checks |-> 0, backend_calls |-> 0]

\* call_tool after its await (stdio_server.py 63, streaming_server.py 70):
\* the request c with what its handler returned or raised.
CallCompleted(c, shared_registry, info, backend) ==
    LET h == Handler(shared_registry, c.handler, info, backend)
    IN  [c EXCEPT !.state = "done",
                  !.raised = h.raised,
                  !.result = h.result,
                  !.failure = HandlerFailure(shared_registry, c.handler, info, backend),
                  !.version_checks = h.version_checks,
                  !.backend_calls = h.backend_calls]

NoCall == [name |-> None, arguments_valid |-> TRUE, state |-> "none", raised |-> "",
           handler |-> "", result |-> <<>>,
           failure |-> "none", version_checks |-> 0, backend_calls |-> 0]

----------------------------------------------------------------------------
(* Inputs *)

GetStar  == <<"G","e","t",".","*">>
search   == <<"s","e","a","r","c","h">>
BadRegex == <<"[">>

RiskyCategory == [k \in {risky} |-> <<ToolA, SearchIndexTool>>]

\* The text of ELASTICSEARCH_TOOL_CATEGORIES: unset or empty, not JSON, a JSON
\* object, or JSON that is no object (such as '["x"]').
InvalidJson == [kind |-> "invalid", value |-> NoCategories]
ObjectJson  == [kind |-> "object", value |-> RiskyCategory]
ArrayJson   == [kind |-> "array", value |-> NoCategories]

Env(dt, tc, dc, dr, aw) ==
    [disabled_tools |-> dt, tool_categories |-> tc, disabled_categories |-> dc,
     disabled_tools_regex |-> dr, allow_write |-> aw]

\* The filter variables of the environment; None is an unset variable.
Envs ==
    { Env(<<>>, EmptyJson, <<>>, <<>>, None),
      Env(<<>>, EmptyJson, <<>>, <<>>, false),
      Env(<<getshardstool, <<>>, Zed>>, EmptyJson, <<>>, <<>>, True),
      Env(<<>>, ArrayJson, <<>>, <<>>, false),
      Env(<<ToolA>>, InvalidJson, <<risky>>, <<>>, false),
      Env(<<>>, ObjectJson, <<nope, risky>>, <<>>, None),
      Env(<<>>, EmptyJson, <<>>, <<GetStar>>, false),
      Env(<<ToolA>>, EmptyJson, <<>>, <<BadRegex>>, None),
      Env(<<Zed>>, EmptyJson, <<>>, <<search>>, None),
      Env(<<SearchIndexTool>>, InvalidJson, <<>>, <<>>, true) }

NoSettings == [k \in {} |-> TRUE]
AllowWrite(b) == [k \in {"allow_write"} |-> b]
OtherSetting == [k \in {"other"} |-> TRUE]

Doc(tools, tcat, dt, dc, dr, settings) ==
    [tools |-> tools, tool_category |-> tcat,
     tool_filters |-> [disabled_tools |-> dt, disabled_categories |-> dc,
                       disabled_tools_regex |-> dr, settings |-> settings]]

\* What the config file holds: None when it cannot be loaded or is empty.
ConfigDocs ==
    { None,
      Doc(NoOverrides, NoCategories, <<>>, <<>>, <<>>, AllowWrite(TRUE)),
      Doc(NoOverrides, RiskyCategory, <<>>, <<risky>>, <<>>, NoSettings),
      Doc([k \in {GetShardsTool} |-> Finder], NoCategories,
          <<getshardstool, Zed>>, <<nope>>, <<search>>, AllowWrite(FALSE)),
      Doc(NoOverrides, NoCategories, <<ToolA>>, <<>>, <<BadRegex>>, OtherSetting) }

\* The command-line overrides: none, a renaming, and one that gives two tools
\* the same display name.
CliOverrides ==
    { NoOverrides,
      [k \in {ToolA, IndexMappingTool} |-> Finder],
      [k \in {ToolB, SearchIndexTool} |->
          IF k = ToolB THEN ToolA ELSE GetShardsTool] }

\* The names a caller asks for.
CallNames == {ToolA, ToolB, GetShardsTool, Finder, Zed}

----------------------------------------------------------------------------
(* The gateway.  stdio_server.serve and streaming_server.create_mcp_server   *)
(* run the same statements, and their list_tools and call_tool are the     *)
(* same text, so one state machine is both.                                *)

Init ==
    /\ tool_registry \in Registries
    /\ mode \in {"single", "multi"}
    /\ \E path \in {"", "config.yml"} :
          /\ config_file_path = path
          /\ config_doc \in (IF path = "" THEN {None} ELSE ConfigDocs)
    /\ cli_tool_overrides \in CliOverrides
    /\ env \in Envs
    /\ pc = "start"
    /\ customized_registry = <<>>
    /\ enabled_tools = <<>>
    /\ backend_info = NoInfo
    /\ version = None
    /\ version_resolved = FALSE
    /\ filter_output = <<>>
    /\ log = {}
    /\ call = NoCall
    /\ ncalls = 0
    /\ previous = [runs |-> 0, tool_registry |-> tool_registry,
                   enabled_tools |-> <<>>, backend_info |-> NoInfo]
    /\ inflight = <<>>
    /\ listed = None

\* serve() / create_mcp_server(): apply_custom_tool_config on TOOL_REGISTRY.
Customize ==
    /\ pc = "start"
    /\ customized_registry' = ApplyCustomToolConfig(tool_registry, config_file_path,
                                                    config_doc, cli_tool_overrides)
    /\ pc' = "customized"
    /\ UNCHANGED <<tool_registry, mode, config_file_path, config_doc,
                   cli_tool_overrides, env, enabled_tools, backend_info, version,
                   version_resolved, filter_output, log, call, ncalls, previous, inflight, listed>>

\* serve() / create_mcp_server(): get_tools on the customized registry; info
\* is what the backend answers if asked for its version.
ResolveTools(info) ==
    /\ pc = "customized"
    /\ LET s == ServeGetTools(tool_registry, customized_registry, mode,
                              config_file_path, config_doc, env, info)
           r == s.result
       IN  /\ enabled_tools' = r.enabled
           /\ customized_registry' = s.customized
           /\ tool_registry' = s.shared
           /\ backend_info' = IF r.version_resolved THEN info ELSE NoInfo
           /\ version' = r.version
           /\ version_resolved' = r.version_resolved
           /\ filter_output' = r.filter_output
           /\ log' = r.log
    /\ pc' = "serving"
    /\ UNCHANGED <<mode, config_file_path, config_doc, cli_tool_overrides, env,
                   call, ncalls, previous, inflight, listed>>

\* call_tool(name, arguments) of either gateway, up to the await of the
\* handler.
CallTool(name, arguments_valid) ==
    /\ pc = "serving"
    /\ call.state # "awaiting"
    /\ ncalls < MaxCalls
    /\ call' = CallToolOutcome(enabled_tools, name, arguments_valid)
    /\ ncalls' = ncalls + 1
    /\ UNCHANGED <<tool_registry, mode, config_file_path, config_doc,
                   cli_tool_overrides, env, pc, customized_registry, enabled_tools,
                   backend_info, version, version_resolved, filter_output, log,
                   previous, inflight, listed>>

\* The awaited handler runs and call_tool returns what it returned, or lets
\* through what it raised; info and backend are what the backend does during
\* this call.
HandlerReturns(info, backend) ==
    /\ pc = "serving"
    /\ call.state = "awaiting"
    /\ call' = CallCompleted(call, tool_registry, info, backend)
    /\ UNCHANGED <<tool_registry, mode, config_file_path, config_doc,
                   cli_tool_overrides, env, pc, customized_registry, enabled_tools,
                   backend_info, version, version_resolved, filter_output, log,
                   ncalls, previous, inflight, listed>>

Next ==
    \/ Customize
    \/ \E info \in InfoResponses : ResolveTools(info)
    \/ \E name \in CallNames, arguments_valid \in BOOLEAN :
          CallTool(name, arguments_valid)
    \/ \E info \in CallInfoResponses, backend \in BackendOutcomes :
          HandlerReturns(info, backend)

Spec == Init /\ [][Next]_vars

\* serve() / create_mcp_server() is run once more in the same process, with
\* the configuration and the environment it had: its locals are fresh, and
\* TOOL_REGISTRY is the module's, as the first run left it.
ServeAgain ==
    /\ pc = "serving"
    /\ previous.runs = 0
    /\ previous' = [previous EXCEPT !.runs = 1,
                                    !.enabled_tools = enabled_tools,
                                    !.backend_info = backend_info]
    /\ pc' = "start"
    /\ customized_registry' = <<>>
    /\ enabled_tools' = <<>>
    /\ backend_info' = NoInfo
    /\ version' = None
    /\ version_resolved' = FALSE
    /\ filter_output' = <<>>
    /\ log' = {}
    /\ UNCHANGED <<tool_registry, mode, config_file_path, config_doc,
                   cli_tool_overrides, env, call, ncalls, inflight, listed>>

NextTwice ==
    \/ Customize
    \/ \E info \in InfoResponses : ResolveTools(info)
    \/ ServeAgain

\* Two runs of the resolution in one process.
SpecTwice == Init /\ [][NextTwice]_vars

----------------------------------------------------------------------------
(* Overlapping requests.  Each request is a task of the gateway's event    *)
(* loop; a task is suspended where call_tool awaits its handler.  The       *)
(* handlers of tools.py call the backend without awaiting, so they run to  *)
(* their end once started; the tasks are let overlap here in every way,    *)
(* which includes the runs in which they do not.                           *)

\* The names the overlapping callers ask for.
OverlapCallNames == {ToolA, GetShardsTool}

\* The environments of the overlapping runs: nothing set, and a list of
\* disabled tools.
OverlapEnvs ==
    { Env(<<>>, EmptyJson, <<>>, <<>>, None),
      Env(<<getshardstool, <<>>, Zed>>, EmptyJson, <<>>, <<>>, True) }

InitOverlap == Init /\ config_file_path = "" /\ env \in OverlapEnvs

\* A list_tools request.
ListToolsRequest ==
    /\ pc = "serving"
    /\ listed' = ListTools(enabled_tools)
    /\ UNCHANGED <<tool_registry, mode, config_file_path, config_doc,
                   cli_tool_overrides, env, pc, customized_registry, enabled_tools,
                   backend_info, version, version_resolved, filter_output, log,
                   call, ncalls, previous, inflight>>


\* call_tool, were it to take the tool out of enabled_tools (pop for get).
CallToolBeginsPopping(name, arguments_valid) ==
    /\ pc = "serving"
    /\ Len(inflight) < MaxCalls
    /\ inflight' = Append(inflight, CallToolOutcome(enabled_tools, name,
                                                    arguments_valid))
    /\ enabled_tools' = SelectSeq(enabled_tools,
                                  LAMBDA t : t.key # FindToolKey(enabled_tools, name))
    /\ UNCHANGED <<tool_registry, mode, config_file_path, config_doc,
                   cli_tool_overrides, env, pc, customized_registry,
                   backend_info, version, version_resolved, filter_output, log,
                   call, ncalls, previous, listed>>

\* A call_tool request of a new task, up to the await of its handler (or to
\* the exception that ends it).
CallToolBegins(name, arguments_valid) ==
    /\ pc = "serving"
    /\ Len(inflight) < MaxCalls
    /\ inflight' = Append(inflight, CallToolOutcome(enabled_tools, name,
                                                    arguments_valid))
    /\ UNCHANGED <<tool_registry, mode, config_file_path, config_doc,
                   cli_tool_overrides, env, pc, customized_registry, enabled_tools,
                   backend_info, version, version_resolved, filter_output, log,
                   call, ncalls, previous, listed>>

\* The handler the i-th request awaits has run, and its call_tool returns.
HandlerCompletes(i, info, backend) ==
    /\ pc = "serving"
    /\ i \in 1..Len(inflight)
    /\ inflight[i].state = "awaiting"
    /\ inflight' = [inflight EXCEPT
                       ![i] = CallCompleted(inflight[i], tool_registry, info, backend)]
    /\ UNCHANGED <<tool_registry, mode, config_file_path, config_doc,
                   cli_tool_overrides, env, pc, customized_registry, enabled_tools,
                   backend_info, version, version_resolved, filter_output, log,
                   call, ncalls, previous, listed>>

NextOverlap ==
    \/ Customize
    \/ \E info \in InfoResponses : ResolveTools(info)
    \/ ListToolsRequest
    \/ \E name \in OverlapCallNames, arguments_valid \in BOOLEAN :
          CallToolBegins(name, arguments_valid)
    \/ \E i \in 1..MaxCalls, info \in CallInfoResponses, backend \in BackendOutcomes :
          HandlerCompletes(i, info, backend)

\* The gateway serving overlapping requests.
SpecOverlap == InitOverlap /\ [][NextOverlap]_vars

----------------------------------------------------------------------------
(* Properties *)

\* get_tools has returned in single-backend mode.
SingleResolved == pc = "serving" /\ mode = "single"

\* The registry that get_tools and process_tool_filter were given.
GivenRegistry ==
    ApplyCustomToolConfig(tool_registry, config_file_path, config_doc,
                          cli_tool_overrides)

\* The config document process_tool_filter reads in this run.
ConfigInEffect == LoadYamlConfig(config_file_path, config_doc)

\* allow_write as process_tool_filter resolves it in this run.
AllowWriteInEffect ==
    IF config_file_path # ""
    THEN Truthy(EffectiveAllowWrite(ConfigInEffect, {}))
    ELSE Truthy(EffectiveAllowWrite(ConfigInEffect, {EnvConfig(env).allow_write}))

\* The disabled tools, categories and patterns this run reads.
ListsInEffect ==
    IF config_file_path # ""
    THEN IF ConfigInEffect = None
         THEN [tools |-> <<>>, categories |-> <<>>, regex |-> <<>>]
         ELSE [tools |-> ConfigInEffect.tool_filters.disabled_tools,
               categories |-> ConfigInEffect.tool_filters.disabled_categories,
               regex |-> ConfigInEffect.tool_filters.disabled_tools_regex]
    ELSE [tools |-> ParseCommaSeparated(env.disabled_tools),
          categories |-> ParseCommaSeparated(env.disabled_categories),
          regex |-> ParseCommaSeparated(env.disabled_tools_regex)]

NoNameFilters ==
    ListsInEffect.tools = <<>> /\ ListsInEffect.categories = <<>>
    /\ ListsInEffect.regex = <<>>

WriteVerbs == {"POST", "PUT", "DELETE"}

\* C1: when allow_write is false, the registry process_tool_filter leaves
\* holds no tool whose http_methods lacks GET; the registry {A: GET, B: PUT}
\* with no other filter leaves exactly {A}.
C1_NoToolWithoutGet ==
    (SingleResolved /\ ~AllowWriteInEffect) =>
        /\ \A i \in 1..Len(filter_output) : "GET" \in filter_output[i].http_methods
        /\ (GivenRegistry = RegistryAB /\ NoNameFilters
            /\ (config_file_path = "" => env.tool_categories.kind = "empty"))
              => Keys(filter_output) = {ToolA}

EnvSupplied(e) ==
    \/ e.disabled_tools # <<>>
    \/ e.tool_categories.kind # "empty"
    \/ e.disabled_categories # <<>>
    \/ e.disabled_tools_regex # <<>>
    \/ e.allow_write # None

\* C3: with a config file path the environment settings have no effect on
\* the enabled set, and a warning is logged whenever both are supplied.
C3_ConfigFileWinsWithWarning ==
    (SingleResolved /\ config_file_path # "") =>
        /\ \A e \in Envs :
              GetTools(GivenRegistry, mode, config_file_path, config_doc, e,
                       backend_info).enabled = enabled_tools
        /\ EnvSupplied(env) => "both_sources_warning" \in log

\* The text of env with its category map left out.
WithoutCategoryMap(e) == [e EXCEPT !.tool_categories = EmptyJson]

CategoriesInEffect ==
    CategoryMap(ConfigInEffect,
                IF config_file_path # "" THEN EmptyJson ELSE env.tool_categories).value

\* The lower-cased display names of the registry the filter was given.
KnownNames ==
    {Lower(GivenRegistry[i].display_name) : i \in 1..Len(GivenRegistry)}

\* The environment and the config document without the unknown tool names
\* and the unknown category names.
EnvOfKnown ==
    LET names == KnownNames
        categories == DOMAIN CategoriesInEffect
    IN  [env EXCEPT
           !.disabled_tools = SelectSeq(@, LAMBDA n : n = <<>> \/ Lower(n) \in names),
           !.disabled_categories = SelectSeq(@, LAMBDA c : c = <<>> \/ c \in categories)]

DocOfKnown ==
    LET names == KnownNames
        categories == DOMAIN CategoriesInEffect
    IN  IF config_doc = None THEN None
        ELSE [config_doc EXCEPT
                !.tool_filters.disabled_tools =
                     SelectSeq(@, LAMBDA n : Lower(n) \in names),
                !.tool_filters.disabled_categories =
                     SelectSeq(@, LAMBDA c : c \in categories)]

HasUnknownEntries ==
    \/ \E i \in 1..Len(ListsInEffect.tools) :
          Lower(ListsInEffect.tools[i]) \notin KnownNames
    \/ \E i \in 1..Len(ListsInEffect.categories) :
          ListsInEffect.categories[i] \notin DOMAIN CategoriesInEffect

\* C5: unknown tool names in disabled_tools and unknown category names in
\* disabled_categories change nothing: process_tool_filter leaves the registry
\* it leaves with those entries deleted, and logs an error only if it does
\* so without them.
C5_UnknownEntriesIgnored ==
    SingleResolved =>
        LET known == FilterCall(GivenRegistry, config_file_path, DocOfKnown,
                                EnvOfKnown)
        IN  /\ filter_output = known.registry
            /\ ("filter_error" \in log) = known.error

\* Unknown names stand beside names that removed a tool.
C5_Witness ==
    /\ SingleResolved /\ HasUnknownEntries /\ AllowWriteInEffect
    /\ "filter_error" \notin log
    /\ Len(filter_output) < Len(GivenRegistry)

\* C6: in multi-backend mode get_tools returns the registry it was given,
\* whatever the filter settings and the backend: no tool removed, no schema
\* field stripped, the backend not asked for its version.
C6_MultiModeReturnsRegistry ==
    (pc = "serving" /\ mode = "multi") =>
        /\ enabled_tools = GivenRegistry
        /\ customized_registry = GivenRegistry
        /\ ~version_resolved
        /\ backend_info = NoInfo

\* Multi-backend mode with write access denied and name filters set: a tool
\* without GET is enabled and the shared arguments are in every schema.
C6_Witness ==
    /\ pc = "serving" /\ mode = "multi"
    /\ ~AllowWriteInEffect /\ ~NoNameFilters
    /\ \E i \in 1..Len(enabled_tools) : "GET" \notin enabled_tools[i].http_methods
    /\ \A i \in 1..Len(enabled_tools) : BaseFields \subseteq enabled_tools[i].properties

\* C7: in single-backend mode with a resolved version v every enabled tool
\* has min_version absent or <= v and max_version absent or >= v; v = 6.9.0
\* excludes a tool with min_version 7.0.0; a tool without bounds that the
\* filter left is enabled.
C7_EnabledWithinVersionBounds ==
    (SingleResolved /\ version # None) =>
        /\ \A i \in 1..Len(enabled_tools) :
              /\ enabled_tools[i].min_version = None
                 \/ ~VersionLt(version, enabled_tools[i].min_version)
              /\ enabled_tools[i].max_version = None
                 \/ ~VersionLt(enabled_tools[i].max_version, version)
        /\ version = V690 =>
              \A i \in 1..Len(enabled_tools) : enabled_tools[i].min_version # V700
        /\ \A i \in 1..Len(filter_output) :
              (filter_output[i].min_version = None
               /\ filter_output[i].max_version = None)
                 => filter_output[i].display_name \in DisplayNames(enabled_tools)

\* Version 6.9.0 is resolved and a tool with min_version 7.0.0 that passed
\* the filter is not enabled, while others are.
C7_Witness ==
    /\ SingleResolved /\ version = V690
    /\ \E i \in 1..Len(filter_output) :
          /\ filter_output[i].min_version = V700
          /\ filter_output[i].display_name \notin DisplayNames(enabled_tools)
    /\ enabled_tools # <<>>

\* The backend call failed or the number it gave does not parse.
VersionResolutionFailed == ~backend_info.ok \/ Len(backend_info.number) # 3

\* C8: when version resolution fails get_elasticsearch_version returns None,
\* the failure is logged, and get_tools enables every tool the filter left:
\* each is entered under its display name with its schema stripped.
C8_UnresolvedVersionFailsOpen ==
    (SingleResolved /\ VersionResolutionFailed) =>
        /\ version = None
        /\ "version_error" \in log
        /\ DisplayNames(enabled_tools) = DisplayNames(filter_output)
        /\ \A j \in 1..Len(enabled_tools) :
              \E i \in 1..Len(filter_output) :
                 enabled_tools[j] =
                    [StripBaseFields(filter_output[i]) EXCEPT
                        !.key = filter_output[i].display_name]

\* The backend call failed and a tool with a version bound is enabled.
C8_Witness ==
    /\ SingleResolved /\ ~backend_info.ok
    /\ \E j \in 1..Len(enabled_tools) : enabled_tools[j].min_version = V700
    /\ \E j \in 1..Len(enabled_tools) : enabled_tools[j].max_version = V7102

\* C9: a call_tool request whose name is no display name of the
\* EnabledToolSet fails with the 'Unknown or disabled tool' ValueError and
\* awaits no handler, after any earlier calls.
C9_UnknownToolRejected ==
    (call.state # "none" /\ call.name \notin DisplayNames(enabled_tools)) =>
        /\ call.state = "done"
        /\ call.raised = "ValueError"
        /\ call.handler = ""
        /\ call.result = <<>>

\* After an earlier call, a call names a tool of the registry that the
\* filter or the version check removed, and is rejected.
C9_Witness ==
    /\ mode = "single" /\ ncalls >= 2
    /\ call.name \in DisplayNames(GivenRegistry) \ DisplayNames(enabled_tools)
    /\ call.raised = "ValueError"

\* C10: a call that names an enabled tool with arguments its argument model
\* rejects returns one error text block, and no exception leaves call_tool.
C10_InvalidArgumentsReturnErrorBlock ==
    (call.state = "done" /\ call.name \in DisplayNames(enabled_tools)
     /\ ~call.arguments_valid) =>
        /\ call.raised = ""
        /\ Len(call.result) = 1
        /\ call.result[1].type = "text" /\ call.result[1].error

\* The text each handler's except clause begins its block with.
FixedErrorPrefix ==
    [f \in {"list_indices_tool", "get_index_mapping_tool", "search_index_tool",
            "get_shards_tool"} |->
        CASE f = "list_indices_tool" -> "Error listing indices: "
          [] f = "get_index_mapping_tool" -> "Error getting mapping: "
          [] f = "search_index_tool" -> "Error searching index: "
          [] OTHER -> "Error getting shards information: "]

\* A handler was invoked with parsed arguments and has finished.
HandlerFinished == call.state = "done" /\ call.handler # ""

\* C11: a handler invoked with parsed arguments returns one text block and
\* raises nothing, whatever the backend does; when its version check or its
\* backend call raised, that block is an error block beginning with the
\* handler's fixed prefix, the version was asked for once, and the backend was
\* called at most once, and not at all after a failed version check.
C11_HandlerReturnsTextBlocks ==
    HandlerFinished =>
        /\ call.raised = ""
        /\ Len(call.result) = 1
        /\ \A i \in 1..Len(call.result) : call.result[i].type = "text"
        /\ call.version_checks = 1
        /\ call.backend_calls <= 1
        /\ call.failure # "none" =>
              /\ call.result[1].error
              /\ call.result[1].prefix = FixedErrorPrefix[call.handler]
        /\ call.failure = "version_check" => call.backend_calls = 0

\* The backend call of get_shards_tool raised after its version check passed.
C11_Witness ==
    /\ HandlerFinished /\ call.handler = "get_shards_tool"
    /\ call.failure = "backend_call" /\ call.backend_calls = 1
    /\ call.result[1].prefix = "Error getting shards information: "

\* The second run of the resolution has returned, the backend having answered
\* it as it answered the first.
SecondRunReturned ==
    previous.runs = 1 /\ pc = "serving" /\ backend_info = previous.backend_info

\* C12: a second run of the resolution in the same process, with the same
\* configuration, environment and backend answer, returns the EnabledToolSet
\* the first returned (same keys, display names and stripped schemas), and
\* starts from the shared registry the first started from.
C12_SecondRunSameEnabledSet ==
    SecondRunReturned =>
        /\ enabled_tools = previous.enabled_tools
        /\ tool_registry = previous.tool_registry

\* Both runs removed a tool and stripped the schemas of those they enabled.
C12_Witness ==
    /\ SecondRunReturned /\ mode = "single"
    /\ Len(filter_output) < Len(GivenRegistry)
    /\ previous.enabled_tools # <<>>
    /\ \A i \in 1..Len(enabled_tools) : enabled_tools[i].properties \cap BaseFields = {}

\* The registries a and b hold the same tools, each with the same properties
\* in its input schema.
SameToolsAndSchemas(a, b) ==
    /\ Keys(a) = Keys(b)
    /\ \A i \in 1..Len(a), j \in 1..Len(b) :
          a[i].key = b[j].key => a[i].properties = b[j].properties

\* C13: after get_tools returns in single-backend mode, the registry it was
\* given and the shared TOOL_REGISTRY hold the tools they held before the
\* call, each with the input schema properties it had.
C13_GetToolsLeavesRegistries ==
    SingleResolved =>
        /\ SameToolsAndSchemas(customized_registry, GivenRegistry)
        /\ SameToolsAndSchemas(tool_registry, previous.tool_registry)

\* The entry get_tools makes for a tool in single-backend mode.
EntryOf(tool_info) ==
    [StripBaseFields(tool_info) EXCEPT !.key = tool_info.display_name]

\* C14: in both modes the display names of the EnabledToolSet are pairwise
\* distinct, every tool that passed the filter and the compatibility check
\* has its entry in it, and each name list_tools returns is dispatched by
\* call_tool to the tool advertised under it.
C14_DisplayNamesDistinctAndDispatched ==
    pc = "serving" =>
        LET names == ListTools(enabled_tools)
        IN  /\ \A i, j \in 1..Len(names) : names[i] = names[j] => i = j
            /\ mode = "single" =>
                  \A i \in 1..Len(filter_output) :
                      IsToolCompatible(version, filter_output[i])
                          => \E j \in 1..Len(enabled_tools) :
                                enabled_tools[j] = EntryOf(filter_output[i])
            /\ \A i \in 1..Len(names) :
                  DictGet(enabled_tools, FindToolKey(enabled_tools, names[i]))
                      = enabled_tools[i]

\* The i-th request is not touched by a step.
RequestKept(i) == i \in 1..Len(inflight') /\ inflight'[i] = inflight[i]

\* C15: the EnabledToolSet is there before any request is served, and no
\* step of a gateway that is serving writes it, whatever requests overlap,
\* fail or wait for the backend; a step changes one request only, a new
\* request's outcome is that of call_tool on the startup EnabledToolSet, and a
\* waiting request ends with what its own handler makes of the backend's
\* answer to it.
C15_EnabledToolSetNeverWritten ==
    [][ /\ pc = "serving" => (pc' = "serving" /\ enabled_tools' = enabled_tools)
        /\ (inflight' # <<>> \/ listed' # None) => pc = "serving"
        /\ listed' # listed => listed' = ListTools(enabled_tools)
        /\ \A i \in 1..Len(inflight) :
              \/ RequestKept(i)
              \/ /\ inflight[i].state = "awaiting"
                 /\ \E info \in CallInfoResponses, backend \in BackendOutcomes :
                       inflight'[i] = CallCompleted(inflight[i], tool_registry,
                                                    info, backend)
                 /\ \A j \in 1..Len(inflight) : j # i => RequestKept(j)
        /\ Len(inflight') # Len(inflight) =>
              /\ Len(inflight') = Len(inflight) + 1
              /\ \A i \in 1..Len(inflight) : RequestKept(i)
              /\ LET c == inflight'[Len(inflight')]
                 IN  c = CallToolOutcome(enabled_tools, c.name, c.arguments_valid)
      ]_vars

\* A request waits for the backend while an earlier one has failed, and a
\* list_tools request was answered in between.
C15_Witness ==
    /\ Len(inflight) >= 2 /\ listed # None
    /\ inflight[1].state = "done"
    /\ inflight[1].raised # "" \/ inflight[1].failure # "none"
    /\ inflight[2].state = "awaiting"
    /\ enabled_tools # <<>>

====
